---- MODULE Spec2Model ----
(***************************************************************************)
(* Model of the POST /search handler of src/main.py: request validation,   *)
(* the direct-URL path, the search path (credential resolution, the call   *)
(* to the search API, the concurrent per-URL fetch_url_content runs under  *)
(* asyncio.gather) and the response or HTTPException the handler ends in.  *)
(*                                                                         *)
(* Text is a sequence of one-character strings, so that str.strip() and    *)
(* BeautifulSoup's get_text are computed, not assumed.  An Optional value  *)
(* that is None is the string None; a JSON field that is not sent is the   *)
(* string Missing.                                                         *)
(***************************************************************************)
EXTENDS Integers, Sequences, FiniteSets, TLC

\* ------------------------------------------------------------- bounds

\* The most result objects the search API's answer holds in the model.
MaxResults == 2

\* ---------------------------------------------------------- constants

\* SearchRequest.n: Field(3, ge=1, le=15)
MinN == 1
MaxN == 15

None == "<None>"
Missing == "<missing>"

\* Python truthiness of an Optional[str]: None and "" are falsy.
Truthy(s) == s # None /\ s # Missing /\ s # ""

\* The URLs the search API and the caller may name.
Urls == {"u1", "u2"}

\* ----------------------------------------------------------- strings

Whitespace == {" ", "\n", "\t"}

RECURSIVE LStrip(_)
LStrip(s) ==
    IF s = <<>> THEN <<>>
    ELSE IF Head(s) \in Whitespace THEN LStrip(Tail(s)) ELSE s

RECURSIVE RStrip(_)
RStrip(s) ==
    IF s = <<>> THEN <<>>
    ELSE IF s[Len(s)] \in Whitespace THEN RStrip(SubSeq(s, 1, Len(s) - 1)) ELSE s

\* str.strip()
Strip(s) == RStrip(LStrip(s))

\* Truthiness of a str: the empty string alone is falsy.
NonEmptyStr(s) == s # <<>>

\* soup.get_text(separator="\n", strip=True): every text node is stripped,
\* the nodes left empty are dropped, the rest are joined by the separator.
RECURSIVE get_text(_)
get_text(nodes) ==
    IF nodes = <<>> THEN <<>>
    ELSE LET first == Strip(Head(nodes))
             rest == get_text(Tail(nodes))
         IN IF first = <<>> THEN rest
            ELSE IF rest = <<>> THEN first
            ELSE first \o <<"\n">> \o rest

\* The sentinel get_prompt asks the model to answer for an irrelevant page.
NOT_RELEVANT == <<"N", "O", "T", " ", "R", "E", "L", "E", "V", "A", "N", "T">>

\* ------------------------------------------------- the environment's answers

\* What the caller may send: q (required by SearchRequest, line 54), url
\* (Optional, line 55) and n (line 62).  The last two values of n lie on
\* either side of le=15.
QValues == {Missing, "", "x"}
UrlValues == {None, "", "u1"}
NValues == {MinN - 1, MinN, MaxResults, MaxN, MaxN + 1}
HeaderValues == {None, "", "hk"}
EnvKeyValues == {None, "dk"}

\* The documents a fetched page may hold: its <title> string and the text
\* nodes left after the boilerplate elements are removed.
Pages ==
    { [title |-> <<>>, nodes |-> <<>>],
      [title |-> <<>>, nodes |-> << <<" ">>, <<"\n">> >>],
      [title |-> <<" ", "t">>, nodes |-> << <<"a", " ">>, <<" ">>, <<" ", "b">> >>] }

\* Non-2xx statuses a page may answer with.
PageErrorStatuses == {404, 503}

\* The ways client.get / raise_for_status / the extraction of one URL end.
PageOutcomes ==
    { [kind |-> "timeout", status |-> 0],
      [kind |-> "connect_error", status |-> 0],
      [kind |-> "extract_error", status |-> 200] }
    \cup { [kind |-> "status", status |-> s] : s \in PageErrorStatuses }
    \cup { [kind |-> "ok", status |-> 200, page |-> p] : p \in Pages }

\* The ways model.ainvoke ends: it raises, or answers with a content that is
\* a string (empty, blank, the sentinel, a summary) or a list of parts.
LlmOutcomes ==
    { [kind |-> "error", content |-> <<>>],
      [kind |-> "parts", content |-> <<>>] }
    \cup { [kind |-> "text", content |-> c] :
              c \in { <<>>, <<" ">>, NOT_RELEVANT, <<"#", " ", "s">> } }

\* JSON bodies of the search API.  A value is tagged with its JSON type.
ResultObjects ==
    { [t |-> "object", url |-> u] : u \in Urls \cup {Missing} }

RECURSIVE SeqsUpTo(_, _)
SeqsUpTo(S, k) ==
    IF k = 0 THEN { <<>> }
    ELSE LET shorter == SeqsUpTo(S, k - 1)
         IN shorter \cup { Append(q, x) : q \in shorter, x \in S }

ResultsValues ==
    { [t |-> "absent", items |-> <<>>], [t |-> "null", items |-> <<>>] }
    \cup { [t |-> "array", items |-> r] : r \in SeqsUpTo(ResultObjects, MaxResults) }

WebValues ==
    { [t |-> "absent", results |-> [t |-> "absent", items |-> <<>>]],
      [t |-> "null", results |-> [t |-> "absent", items |-> <<>>]] }
    \cup { [t |-> "object", results |-> r] : r \in ResultsValues }

JsonBodies ==
    { [t |-> "invalid", web |-> [t |-> "absent", results |-> [t |-> "absent", items |-> <<>>]]],
      [t |-> "array", web |-> [t |-> "absent", results |-> [t |-> "absent", items |-> <<>>]]] }
    \cup { [t |-> "object", web |-> w] : w \in WebValues }

\* Non-success answers of the search API, with the body's text.
SearchErrors ==
    { [status |-> 401, text |-> "bad token"],
      [status |-> 429, text |-> "rate limited"],
      [status |-> 503, text |-> ""] }

NoJson == CHOOSE b \in JsonBodies : b.t = "invalid"

\* search_response before the search API has answered.
NoSearchResponse == [status |-> 0, text |-> "", json |-> NoJson]

SearchOutcomes ==
    { [kind |-> "connect_error", status |-> 0, text |-> "", json |-> NoJson] }
    \cup { [kind |-> "http", status |-> e.status, text |-> e.text, json |-> NoJson] :
              e \in SearchErrors }
    \cup { [kind |-> "http", status |-> 200, text |-> "json", json |-> j] :
              j \in JsonBodies }

\* ------------------------------------------------ responses and exceptions

NoResponse == [status |-> 0, results |-> <<>>, detail |-> <<>>]

\* SearchResponse(results=...), sent with status 200.
SearchResponse(results) == [status |-> 200, results |-> results, detail |-> <<>>]

\* What FastAPI sends for a raised HTTPException(status_code, detail).
HTTPErrorResponse(status_code, detail) ==
    [status |-> status_code, results |-> <<>>, detail |-> detail]

\* What FastAPI sends when the body does not validate as a SearchRequest.
RequestValidationError == HTTPErrorResponse(422, <<"validation error">>)

NoException == [type |-> "none", status_code |-> 0, detail |-> <<>>]
HTTPException(status_code, detail) ==
    [type |-> "HTTPException", status_code |-> status_code, detail |-> detail]
HTTPStatusError(status_code, text) ==
    [type |-> "HTTPStatusError", status_code |-> status_code, detail |-> <<text>>]
OtherException(what) ==
    [type |-> "Exception", status_code |-> 0, detail |-> <<what>>]

\* str(e): an HTTPException prints as "<status_code>: <detail>".
ExcStr(e) ==
    IF e.type = "HTTPException" THEN <<ToString(e.status_code), ": ">> \o e.detail
    ELSE e.detail

\* httpx's Response.is_success
IsSuccess(status) == status >= 200 /\ status <= 299

\* ------------------------------------------------------ SearchRequest

\* Pydantic's validation of the body: q is a required str, n is an int with
\* ge=1 and le=15; url and search_context have defaults.
ValidBody(b) == b.q # Missing /\ b.n >= MinN /\ b.n <= MaxN

\* ---------------------------------------------------- fetch_url_content

NoneResult == [isNone |-> TRUE, url |-> "", page_title |-> <<>>, page_contents |-> <<>>]

PageResult(url, page_title, page_contents) ==
    [isNone |-> FALSE, url |-> url, page_title |-> page_title,
     page_contents |-> page_contents]

\* The coroutine of one URL when it is created and awaits client.get.
NewTask(url) ==
    [url |-> url, pc |-> "fetching", attempts |-> 1, fetch |-> "pending",
     page_status |-> 0, page_title |-> <<>>, text |-> <<>>,
     llm_calls |-> 0, llm |-> "none", processed_text |-> <<>>,
     result |-> NoneResult, raised |-> NoException]

\* "return PageResult(url=url, ...)": the URL reported is the one requested.
ReturnPageResult(task, page_title, text) ==
    [task EXCEPT !.pc = "done", !.page_title = page_title, !.text = text,
                 !.result = PageResult(task.url, page_title, text)]

\* Variant: the run has no except clause and the exception leaves it.
PropagateFetchError(task, e) ==
    [task EXCEPT !.pc = "done", !.result = NoneResult, !.raised = e]

\* Variant: a failed run starts over, without a limit.
RetryFetchForever(task, e) == [task EXCEPT !.pc = "fetching"]

\* Variant: a failed run is tried once more before it gives up.
RetryFetchError(task, e) ==
    IF task.attempts < 2
    THEN [task EXCEPT !.pc = "fetching", !.attempts = @ + 1]
    ELSE [task EXCEPT !.pc = "done", !.result = NoneResult, !.raised = NoException]

\* "except Exception as e: ... return None"
CatchFetchError(task, e) ==
    [task EXCEPT !.pc = "done", !.result = NoneResult, !.raised = NoException]

\* The exception client.get or raise_for_status or the extraction raises.
FetchException(outcome) ==
    IF outcome.kind = "status" THEN HTTPStatusError(outcome.status, "page")
    ELSE OtherException(outcome.kind)

\* Variant: the distillation runs whether or not a key is configured.
DistillAlways(gemini_key) == TRUE

\* Line 128, "if GEMINI_API_KEY:".
DistillEnabled(gemini_key) == Truthy(gemini_key)

\* Lines 83-126 and, with no GEMINI_API_KEY, line 140.
AfterFetch(task, outcome, gemini_key) ==
    LET t == [task EXCEPT !.fetch = outcome.kind, !.page_status = outcome.status]
    IN IF outcome.kind # "ok" \/ ~IsSuccess(outcome.status)
       THEN CatchFetchError(t, FetchException(outcome))
       ELSE LET page_title == Strip(outcome.page.title)
                text == get_text(outcome.page.nodes)
            IN IF DistillEnabled(gemini_key)
               THEN [t EXCEPT !.pc = "distilling", !.page_title = page_title,
                              !.text = text, !.llm = "pending",
                              !.llm_calls = @ + 1]
               ELSE ReturnPageResult(t, page_title, text)

\* Variant: a page the model calls irrelevant is dropped, the run returns None.
AfterDistillDropsIrrelevant(task, outcome) ==
    LET t == [task EXCEPT !.llm = outcome.kind, !.processed_text = outcome.content]
    IN IF outcome.kind = "error" THEN ReturnPageResult(t, t.page_title, t.text)
       ELSE IF outcome.kind = "parts" \/ outcome.content = NOT_RELEVANT
       THEN CatchFetchError(t, OtherException("dropped"))
       ELSE ReturnPageResult(t, t.page_title,
                IF NonEmptyStr(outcome.content) THEN outcome.content ELSE t.text)

\* Variant: ainvoke is not wrapped in its own try, so its exception reaches
\* the outer except and the run returns None; an empty answer replaces the text.
AfterDistillFatal(task, outcome) ==
    LET t == [task EXCEPT !.llm = outcome.kind, !.processed_text = outcome.content]
    IN IF outcome.kind \in {"error", "parts"}
       THEN CatchFetchError(t, OtherException(outcome.kind))
       ELSE ReturnPageResult(t, t.page_title, outcome.content)

\* Lines 132-140: the model's answer replaces the text when it is truthy; an
\* exception of ainvoke leaves the text as extracted; a content that is not a
\* str fails PageResult's validation, which the outer except turns into None.
AfterDistill(task, outcome) ==
    LET t == [task EXCEPT !.llm = outcome.kind, !.processed_text = outcome.content]
    IN IF outcome.kind = "error" THEN ReturnPageResult(t, t.page_title, t.text)
       ELSE IF outcome.kind = "parts"
       THEN CatchFetchError(t, OtherException("ValidationError"))
       ELSE LET processed_text == outcome.content
                text == IF NonEmptyStr(processed_text) THEN processed_text ELSE t.text
            IN ReturnPageResult(t, t.page_title, text)

\* ------------------------------------------------------ the direct path

\* Line 145, "if body.url:".
HasUrl(b) == Truthy(b.url)

\* Variant: the test is "body.q is None", which an empty q passes.
HasQueryIsNotNone(b) == b.q # Missing /\ b.q # None

\* Line 161, "if not body.q:".
HasQuery(b) == Truthy(b.q)

\* Variant: the test is brave_api_key == "", which None passes.
KeyMissingIsEmpty(brave_api_key) == brave_api_key = ""

\* Line 168, "if not brave_api_key:".
KeyMissing(brave_api_key) == ~Truthy(brave_api_key)

\* "if result:" on an Optional[PageResult]: None alone is falsy.
ResultTruthy(result) == ~result.isNone

\* Lines 148-155, inside the try: what the body returns or raises.
DirectTry(task, url) ==
    IF task.raised.type # "none"
    THEN [kind |-> "raise", exc |-> task.raised, response |-> NoResponse]
    ELSE IF ResultTruthy(task.result)
    THEN [kind |-> "return", exc |-> NoException,
          response |-> SearchResponse(<<task.result>>)]
    ELSE [kind |-> "raise",
          exc |-> HTTPException(404, <<"Unable to fetch content from URL: ", url>>),
          response |-> NoResponse]

\* Lines 156-159: "except Exception as e" encloses the whole try body, and
\* HTTPException is an Exception.
DirectExcept(outcome) ==
    IF outcome.kind = "raise"
    THEN HTTPErrorResponse(500, <<"Error fetching URL: ">> \o ExcStr(outcome.exc))
    ELSE outcome.response

\* Lines 145-159.
DirectResponse(task, url) == DirectExcept(DirectTry(task, url))

\* ------------------------------------------------------ the search path

\* Variant: the operands of "or" are swapped, the default comes first.
ResolveKeyDefaultFirst(x_brave_search_api_key, default_key) ==
    IF Truthy(default_key) THEN default_key ELSE x_brave_search_api_key

\* Line 166: the header when truthy, else the process default.
ResolveKey(x_brave_search_api_key, default_key) ==
    IF Truthy(x_brave_search_api_key) THEN x_brave_search_api_key ELSE default_key

Min(a, b) == IF a <= b THEN a ELSE b

\* Variant: the list is not sliced.
SliceAll(items, n) == items

\* items[: n] for n >= 1
SliceTo(items, n) == SubSeq(items, 1, Min(n, Len(items)))

\* Lines 190-197: the candidate URLs of a 2xx answer, or the exception the
\* lookups raise (json() on a body that is no JSON, "in" or a subscript on
\* None, a result object with no "url" key).
ResolveUrls(json, n) ==
    LET raise == [raised |-> TRUE, urls |-> <<>>]
        none == [raised |-> FALSE, urls |-> <<>>]
    IN CASE json.t = "invalid" -> raise
         [] json.t = "array" -> none
         [] json.t = "object" /\ json.web.t = "absent" -> none
         [] json.t = "object" /\ json.web.t = "null" -> raise
         [] json.t = "object" /\ json.web.t = "object" ->
              CASE json.web.results.t = "absent" -> none
                [] json.web.results.t = "null" -> raise
                [] json.web.results.t = "array" ->
                     LET items == SliceTo(json.web.results.items, n)
                     IN IF \E i \in DOMAIN items : items[i].url = Missing
                        THEN raise
                        ELSE [raised |-> FALSE,
                              urls |-> [i \in DOMAIN items |-> items[i].url]]

\* Variant: "except Exception" comes first and takes every exception.
SearchExceptGeneric(e) ==
    HTTPErrorResponse(500, <<"Error during search: ">> \o ExcStr(e))

\* Lines 213-221: the two except clauses of the search path.
SearchExcept(e) ==
    IF e.type = "HTTPStatusError"
    THEN HTTPErrorResponse(e.status_code,
                           <<"Error from Brave Search API: ">> \o e.detail)
    ELSE HTTPErrorResponse(500, <<"Error during search: ">> \o ExcStr(e))

\* Lines 186-200, up to the fan-out: the response the handler ends with, or
\* the candidate URLs it goes on to fetch (response NoResponse).
AfterSearch(outcome, n) ==
    IF outcome.kind = "connect_error"
    THEN [response |-> SearchExcept(OtherException("ConnectError")), urls |-> <<>>]
    ELSE IF ~IsSuccess(outcome.status)
    THEN [response |-> SearchExcept(HTTPStatusError(outcome.status, outcome.text)),
          urls |-> <<>>]
    ELSE LET r == ResolveUrls(outcome.json, n)
         IN IF r.raised
            THEN [response |-> SearchExcept(OtherException("lookup")), urls |-> <<>>]
            ELSE IF r.urls = <<>>
            THEN [response |-> SearchResponse(<<>>), urls |-> <<>>]
            ELSE [response |-> NoResponse, urls |-> r.urls]

\* Variant: the results are collected as the runs finish.
GatherResultsAsCompleted(ts, order) == [k \in DOMAIN order |-> ts[order[k]].result]

\* asyncio.gather(*tasks): the results in the order of the awaitables given,
\* whatever order they finished in.
GatherResults(ts, order) == [i \in DOMAIN ts |-> ts[i].result]

\* Lines 205-209: keep a result that is not None and has non-blank contents.
RECURSIVE FilterResults(_)
FilterResults(rs) ==
    IF rs = <<>> THEN <<>>
    ELSE LET result == Head(rs)
             rest == FilterResults(Tail(rs))
         IN IF ~result.isNone /\ NonEmptyStr(Strip(result.page_contents))
            THEN <<result>> \o rest
            ELSE rest

\* Variant: the handler goes on as soon as one run is done.
GatherDoneFirstCompleted(ts) == \E i \in DOMAIN ts : ts[i].pc = "done"

\* gather is done when every run is, or raises as soon as one run raised.
GatherDone(ts) ==
    \/ \A i \in DOMAIN ts : ts[i].pc = "done"
    \/ \E i \in DOMAIN ts : ts[i].raised.type # "none"

\* Lines 203-221: the response once gather is done.
GatherResponse(ts, order) ==
    IF \E i \in DOMAIN ts : ts[i].raised.type # "none"
    THEN LET k == CHOOSE j \in DOMAIN order : ts[order[j]].raised.type # "none"
                     /\ \A m \in 1..(j - 1) : ts[order[m]].raised.type = "none"
         IN SearchExcept(ts[order[k]].raised)
    ELSE SearchResponse(FilterResults(GatherResults(ts, order)))

\* ------------------------------------------------------- link rewriting

\* No anchor is being rewritten.
NoAnchor == [url |-> <<>>, href |-> <<>>, nodes |-> <<>>]

\* The anchor's string before the extraction has set it.
NotRendered == <<"<unset>">>

StartsWith(s, p) == Len(s) >= Len(p) /\ SubSeq(s, 1, Len(p)) = p

Drop(s, k) == SubSeq(s, k + 1, Len(s))

\* str.split(sep) for a one-character separator.
RECURSIVE SplitOn(_, _)
SplitOn(s, sep) ==
    IF \A i \in DOMAIN s : s[i] # sep THEN <<s>>
    ELSE LET i == CHOOSE j \in DOMAIN s :
                      s[j] = sep /\ \A m \in 1..(j - 1) : s[m] # sep
         IN <<SubSeq(s, 1, i - 1)>> \o SplitOn(Drop(s, i), sep)

\* sep.join(parts)
RECURSIVE JoinWith(_, _)
JoinWith(parts, sep) ==
    IF parts = <<>> THEN <<>>
    ELSE IF Len(parts) = 1 THEN parts[1]
    ELSE parts[1] \o sep \o JoinWith(Tail(parts), sep)

\* Line 100: "/".join(url.split("/")[:3])
BaseUrl(url) ==
    LET parts == SplitOn(url, "/")
    IN JoinWith(SubSeq(parts, 1, Min(3, Len(parts))), <<"/">>)

\* Lines 96-101: an href that starts with "//" gets "https:" in front, one
\* that starts with "/" gets the base of the requested URL in front.
ResolveHref(href, url) ==
    IF StartsWith(href, <<"/">>)
    THEN IF StartsWith(href, <<"/", "/">>)
         THEN <<"h", "t", "t", "p", "s", ":">> \o href
         ELSE BaseUrl(url) \o href
    ELSE href

\* Line 107: re.sub(r"^https?://", "", href)
CleanHref(href) ==
    IF StartsWith(href, <<"h", "t", "t", "p", ":", "/", "/">>) THEN Drop(href, 7)
    ELSE IF StartsWith(href, <<"h", "t", "t", "p", "s", ":", "/", "/">>) THEN Drop(href, 8)
    ELSE href

\* Line 103: a_tag.get_text(strip=True), the stripped text nodes joined by "".
RECURSIVE LinkText(_)
LinkText(nodes) ==
    IF nodes = <<>> THEN <<>> ELSE Strip(Head(nodes)) \o LinkText(Tail(nodes))

\* Lines 104-105.
LinkTextOrDefault(nodes) ==
    IF LinkText(nodes) = <<>> THEN <<"L", "i", "n", "k">> ELSE LinkText(nodes)

\* Lines 94-108: the string given to an anchor of the page fetched from url.
AnchorString(url, href, nodes) ==
    LinkTextOrDefault(nodes) \o <<" ", "(">> \o CleanHref(ResolveHref(href, url))
        \o <<")">>

\* The URLs of the pages, the href values and the text nodes of the anchors.
PageUrls ==
    { <<"h", "t", "t", "p", ":", "/", "/", "e", "x", "a", "m", "p", "l", "e", ".", "c", "o", "m", "/", "p", "a", "g", "e">>,
      <<"h", "t", "t", "p", "s", ":", "/", "/", "e", "x", "a", "m", "p", "l", "e", ".", "c", "o", "m">>,
      <<"h", "t", "t", "p", ":", "/", "/", "e", "x", "a", "m", "p", "l", "e", ".", "c", "o", "m", "?", "x", "=", "1">>,
      <<"h", "t", "t", "p", "s", ":", "/", "/", "e", "x", "a", "m", "p", "l", "e", ".", "c", "o", "m", "/", "a", "/", "b">> }

Hrefs ==
    { <<"/", "f", "o", "o">>,
      <<"/", "/", "c", "d", "n", ".", "x", "/", "y">>,
      <<"h", "t", "t", "p", ":", "/", "/", "o", ".", "o", "r", "g", "/", "z">>,
      <<"h", "t", "t", "p", "s", ":", "/", "/", "o", ".", "o", "r", "g">>,
      <<"r", "e", "l", ".", "h", "t", "m", "l">>,
      <<"#", "t", "o", "p">>,
      <<>> }

AnchorTexts ==
    { <<>>,
      <<<<" ">>>>,
      <<<<"b", "a", "r">>>>,
      <<<<" ", "b">>, <<"a", "r", " ">>>> }

\* ---------------------------------------------------------------- state

VARIABLES
    body,                    \* the request body as sent
    x_brave_search_api_key,  \* the X-Brave-Search-API-Key header, or None
    BRAVE_SEARCH_API_KEY,    \* the process default, read at start-up
    GEMINI_API_KEY,          \* the text-generation credential, read at start-up
    pc,                      \* where the handler is
    search_response,         \* the search API's answer: status, text, JSON body
    urls,                    \* the candidate URLs resolved from it
    tasks,                   \* the fetch_url_content runs, in launch order
    completed,               \* the indices of the finished runs, in finishing order
    response,                \* what the caller receives
    searchCalls,             \* requests sent to the search API
    fetchCalls,              \* page GETs launched
    llmCalls,                \* model.ainvoke calls made
    sent_token,              \* the X-Subscription-Token sent to the search API
    anchor,                  \* an <a href> of a page: page URL, href, text nodes
    rendered                 \* the string the extraction gives that anchor

vars == <<body, x_brave_search_api_key, BRAVE_SEARCH_API_KEY, GEMINI_API_KEY, pc,
          search_response, urls, tasks, completed, response,
          searchCalls, fetchCalls, llmCalls, sent_token, anchor, rendered>>

link == <<anchor, rendered>>

config == <<body, x_brave_search_api_key, BRAVE_SEARCH_API_KEY, GEMINI_API_KEY>>

Init ==
    /\ body \in [q : QValues, url : UrlValues, n : NValues]
    /\ x_brave_search_api_key \in HeaderValues
    /\ BRAVE_SEARCH_API_KEY \in EnvKeyValues
    /\ GEMINI_API_KEY \in {None, "gk"}
    /\ pc = "received"
    /\ search_response = NoSearchResponse
    /\ urls = <<>>
    /\ tasks = <<>>
    /\ completed = <<>>
    /\ response = NoResponse
    /\ searchCalls = 0
    /\ fetchCalls = 0
    /\ llmCalls = 0
    /\ sent_token = None
    /\ anchor = NoAnchor
    /\ rendered = NotRendered

\* -------------------------------------------------------------- actions

\* FastAPI parses the body into a SearchRequest before the handler runs.
ValidateRequest ==
    /\ pc = "received"
    /\ IF ValidBody(body)
       THEN pc' = "handler" /\ response' = response
       ELSE pc' = "done" /\ response' = RequestValidationError
    /\ UNCHANGED <<config, link, sent_token, search_response, urls, tasks, completed,
                   searchCalls, fetchCalls, llmCalls>>

\* Lines 145-148: a truthy body.url starts the one run of the direct path.
StartDirect ==
    /\ pc = "handler"
    /\ HasUrl(body)
    /\ tasks' = <<NewTask(body.url)>>
    /\ fetchCalls' = fetchCalls + 1
    /\ pc' = "direct"
    /\ UNCHANGED <<config, link, sent_token, search_response, urls, completed, response,
                   searchCalls, llmCalls>>

\* Lines 161-164.
RejectNoQuery ==
    /\ pc = "handler"
    /\ ~HasUrl(body)
    /\ ~HasQuery(body)
    /\ response' = HTTPErrorResponse(400,
                       <<"Either 'url' or 'q' parameter must be provided">>)
    /\ pc' = "done"
    /\ UNCHANGED <<config, link, sent_token, search_response, urls, tasks, completed,
                   searchCalls, fetchCalls, llmCalls>>

\* Lines 166-172.
RejectNoKey ==
    /\ pc = "handler"
    /\ ~HasUrl(body)
    /\ HasQuery(body)
    /\ KeyMissing(ResolveKey(x_brave_search_api_key, BRAVE_SEARCH_API_KEY))
    /\ response' = HTTPErrorResponse(403,
                       <<"Brave Search API key is needed.X-Brave-Search-API-Key header.">>)
    /\ pc' = "done"
    /\ UNCHANGED <<config, link, sent_token, search_response, urls, tasks, completed,
                   searchCalls, fetchCalls, llmCalls>>

\* Lines 174-188: the GET to the search API is sent.
CallSearch ==
    /\ pc = "handler"
    /\ ~HasUrl(body)
    /\ HasQuery(body)
    /\ ~KeyMissing(ResolveKey(x_brave_search_api_key, BRAVE_SEARCH_API_KEY))
    /\ sent_token' = ResolveKey(x_brave_search_api_key, BRAVE_SEARCH_API_KEY)
    /\ searchCalls' = searchCalls + 1
    /\ pc' = "searching"
    /\ UNCHANGED <<config, link, search_response, urls, tasks, completed, response,
                   fetchCalls, llmCalls>>

\* Lines 186-202: the search API answers (or the call fails); the handler ends
\* with a response or creates one fetch_url_content run per candidate URL.
SearchReturns ==
    /\ pc = "searching"
    /\ \E outcome \in SearchOutcomes :
         LET r == AfterSearch(outcome, body.n)
         IN /\ search_response' = [status |-> outcome.status, text |-> outcome.text,
                                     json |-> outcome.json]
            /\ urls' = r.urls
            /\ response' = r.response
            /\ IF r.response # NoResponse
               THEN pc' = "done" /\ tasks' = tasks /\ fetchCalls' = fetchCalls
               ELSE /\ pc' = "gathering"
                    /\ tasks' = [i \in DOMAIN r.urls |-> NewTask(r.urls[i])]
                    /\ fetchCalls' = fetchCalls + Len(r.urls)
    /\ UNCHANGED <<config, link, sent_token, completed, searchCalls, llmCalls>>

\* What the handler does when run i has changed to task t: on the direct path
\* the handler itself awaits the run and ends with it (lines 148-159).
HandlerAfterRun(t) ==
    IF pc = "direct" /\ t.pc = "done"
    THEN pc' = "done" /\ response' = DirectResponse(t, body.url)
    ELSE pc' = pc /\ response' = response

\* Lines 83-126 (and 140 with no text generation) of run i: the GET ends.
FetchReturns(i) ==
    /\ tasks[i].pc = "fetching"
    /\ \E outcome \in PageOutcomes :
         LET t == AfterFetch(tasks[i], outcome, GEMINI_API_KEY)
         IN /\ tasks' = [tasks EXCEPT ![i] = t]
            /\ llmCalls' = IF t.pc = "distilling" THEN llmCalls + 1 ELSE llmCalls
            /\ completed' = IF t.pc = "done" THEN Append(completed, i) ELSE completed
            /\ HandlerAfterRun(t)
    /\ UNCHANGED <<config, link, sent_token, search_response, urls, searchCalls, fetchCalls>>

\* Lines 132-140 of run i: model.ainvoke ends.
DistillReturns(i) ==
    /\ tasks[i].pc = "distilling"
    /\ \E outcome \in LlmOutcomes :
         LET t == AfterDistill(tasks[i], outcome)
         IN /\ tasks' = [tasks EXCEPT ![i] = t]
            /\ completed' = Append(completed, i)
            /\ HandlerAfterRun(t)
    /\ UNCHANGED <<config, link, sent_token, search_response, urls, searchCalls, fetchCalls, llmCalls>>

\* Lines 203-221: gather is done; the handler filters and responds.
GatherReturns ==
    /\ pc = "gathering"
    /\ GatherDone(tasks)
    /\ response' = GatherResponse(tasks, completed)
    /\ pc' = "done"
    /\ UNCHANGED <<config, link, sent_token, search_response, urls, tasks, completed,
                   searchCalls, fetchCalls, llmCalls>>

Next ==
    \/ ValidateRequest
    \/ StartDirect
    \/ RejectNoQuery
    \/ RejectNoKey
    \/ CallSearch
    \/ SearchReturns
    \/ \E i \in DOMAIN tasks : FetchReturns(i)
    \/ \E i \in DOMAIN tasks : DistillReturns(i)
    \/ GatherReturns

Spec == Init /\ [][Next]_vars

\* The event loop runs a callback that is ready, and every outbound call ends
\* (the GET of a page within its 5 s timeout): a step that can be taken is
\* not put off forever.
FairSpec == Spec /\ WF_vars(Next)

\* The extraction of one anchor, for every page URL, href and anchor text:
\* no request is under way.
LinksInit ==
    /\ body = [q |-> "x", url |-> None, n |-> MinN]
    /\ x_brave_search_api_key = None
    /\ BRAVE_SEARCH_API_KEY = None
    /\ GEMINI_API_KEY = None
    /\ pc = "extracting"
    /\ search_response = NoSearchResponse
    /\ urls = <<>>
    /\ tasks = <<>>
    /\ completed = <<>>
    /\ response = NoResponse
    /\ searchCalls = 0
    /\ fetchCalls = 0
    /\ llmCalls = 0
    /\ sent_token = None
    /\ anchor \in [url : PageUrls, href : Hrefs, nodes : AnchorTexts]
    /\ rendered = NotRendered

\* Lines 93-108, for one a_tag.
RewriteLink ==
    /\ pc = "extracting"
    /\ rendered = NotRendered
    /\ rendered' = AnchorString(anchor.url, anchor.href, anchor.nodes)
    /\ UNCHANGED <<config, pc, search_response, urls, tasks, completed, response,
                   searchCalls, fetchCalls, llmCalls, sent_token, anchor>>

LinksNext == RewriteLink

LinksSpec == LinksInit /\ [][LinksNext]_vars

\* --------------------------------------------------------------- claims

\* The request is on the search path: no truthy url was sent.
SearchMode == body.url \in {None, ""}

\* The request is on the direct path.
DirectMode == body.url \notin {None, ""}

\* Run i ended in a failure of its fetch or of its extraction.
FetchFailed(i) ==
    /\ tasks[i].pc = "done"
    /\ tasks[i].fetch \in {"timeout", "connect_error", "status", "extract_error"}

CountRecords(rs, u) == Cardinality({ k \in DOMAIN rs : rs[k].url = u })

CountUsable(u) ==
    Cardinality({ i \in DOMAIN tasks : tasks[i].url = u /\ ~FetchFailed(i) })

\* C1: on the search path a request whose candidates were fetched ends as a
\* success, and no URL has more records in the result set than it has
\* candidates whose fetch and extraction did not fail (a failed candidate
\* contributes no record); on the direct path a failed fetch or extraction of
\* the one target ends the request with an error and no results.
C1_PerUrlFailureIsolated ==
    (pc = "done" /\ tasks # <<>>) =>
        IF DirectMode
        THEN FetchFailed(1) =>
                 (~IsSuccess(response.status) /\ response.results = <<>>)
        ELSE /\ response.status = 200
             /\ \A u \in Urls :
                    CountRecords(response.results, u) <= CountUsable(u)

C1_Witness ==
    /\ pc = "done"
    /\ SearchMode
    /\ response.status = 200
    /\ Len(response.results) = 1
    /\ \E i, j \in DOMAIN tasks :
          /\ tasks[i].fetch = "status"
          /\ tasks[j].fetch = "ok"
          /\ response.results[1] = tasks[j].result

\* C2: on the direct path, a run that yields no record ends the request with
\* status 404 and a message that names the requested URL.
C2_DirectFailureIsNotFound ==
    (pc = "done" /\ DirectMode /\ tasks # <<>> /\ tasks[1].result.isNone) =>
        /\ response.status = 404
        /\ \E k \in DOMAIN response.detail : response.detail[k] = body.url

\* C3: a body with a url and no q field, and n in range, is not rejected by
\* validation: the direct run is made, and when it yields a record the
\* response is a success with exactly that one record.
C3_UrlWithoutQueryAccepted ==
    (pc = "done" /\ body.q = Missing /\ DirectMode /\ body.n \in MinN..MaxN) =>
        /\ Len(tasks) = 1
        /\ ~tasks[1].result.isNone =>
              (response.status = 200 /\ response.results = <<tasks[1].result>>)

\* C4: on the search path the records of a successful response are, in order,
\* the records of runs taken at strictly increasing positions of the candidate
\* list, each carrying the URL requested at that position, whatever order the
\* runs finished in.
C4_OrderPreserved ==
    (pc = "done" /\ SearchMode /\ response.status = 200) =>
        \E f \in [DOMAIN response.results -> DOMAIN urls] :
            /\ \A k, m \in DOMAIN response.results : k < m => f[k] < f[m]
            /\ \A k \in DOMAIN response.results :
                  /\ response.results[k].url = urls[f[k]]
                  /\ response.results[k] = tasks[f[k]].result

C4_Witness ==
    /\ pc = "done"
    /\ SearchMode
    /\ Len(response.results) = 2
    /\ urls[1] # urls[2]
    /\ completed = <<2, 1>>

\* C5: for n in [1,15], on the search path never more than n runs are
\* launched and the result set never has more than n records, also when the
\* search API sent more than n result objects; on the direct path the result
\* set has at most one record.
C5_AtMostN ==
    body.n \in MinN..MaxN =>
        IF DirectMode
        THEN Len(response.results) <= 1 /\ fetchCalls <= 1
        ELSE /\ Len(response.results) <= body.n
             /\ fetchCalls <= body.n
             /\ Len(tasks) <= body.n

C5_Witness ==
    /\ pc = "done"
    /\ SearchMode
    /\ search_response.json.t = "object"
    /\ search_response.json.web.t = "object"
    /\ Len(search_response.json.web.results.items) > body.n
    /\ Len(response.results) = body.n
    /\ fetchCalls = body.n

\* C6: every record of a successful response has contents that are not empty
\* and not blank.
C6_ContentNonEmpty ==
    (pc = "done" /\ response.status = 200) =>
        \A k \in DOMAIN response.results :
            Strip(response.results[k].page_contents) # <<>>

\* C7: a request with neither a q (absent or empty) nor a url (absent or
\* empty) never gets past validation and the handler's first test: no
\* outbound call is ever made for it, and it ends with a client error.
C7_NeitherRejectedBeforeIO ==
    (body.q \in {Missing, ""} /\ body.url \in {None, ""}) =>
        /\ searchCalls = 0 /\ fetchCalls = 0 /\ llmCalls = 0
        /\ pc \in {"received", "handler", "done"}
        /\ pc = "done" => response.status \in {400, 422}

C7_Witness ==
    /\ pc = "done"
    /\ body.q = ""
    /\ body.url \in {None, ""}
    /\ response.status = 400
    /\ searchCalls + fetchCalls + llmCalls = 0

\* C8: on the search path, with no header value and no process default, the
\* search API is never called, no page is fetched, and the request ends with
\* status 403.
C8_NoCredentialNoSearch ==
    (/\ SearchMode
     /\ body.q = "x"
     /\ body.n \in MinN..MaxN
     /\ x_brave_search_api_key \in {None, ""}
     /\ BRAVE_SEARCH_API_KEY \in {None, ""}) =>
        /\ searchCalls = 0 /\ fetchCalls = 0
        /\ pc \in {"received", "handler", "done"}
        /\ pc = "done" => response.status = 403

C8_Witness ==
    /\ pc = "done"
    /\ SearchMode
    /\ x_brave_search_api_key = None
    /\ BRAVE_SEARCH_API_KEY = None
    /\ response.status = 403
    /\ searchCalls = 0

\* C9: once the search API has answered with a non-success status the request
\* has ended with that status and the API's body text in the message, and no
\* page was fetched; and on the search path the status of a finished request
\* is never the non-2xx status a candidate page answered with.
C9_UpstreamStatusPassedThrough ==
    /\ (search_response.status # 0 /\ ~IsSuccess(search_response.status)) =>
          /\ pc = "done"
          /\ response.status = search_response.status
          /\ \E k \in DOMAIN response.detail :
                response.detail[k] = search_response.text
          /\ fetchCalls = 0 /\ tasks = <<>>
    /\ (pc = "done" /\ SearchMode) =>
          \A i \in DOMAIN tasks :
              tasks[i].fetch = "status" => response.status # tasks[i].page_status

C9_Witness ==
    /\ pc = "done"
    /\ search_response.status = 429
    /\ response.status = 429
    /\ response.detail = <<"Error from Brave Search API: ", "rate limited">>
    /\ fetchCalls = 0

\* The body lacks the results container, or the container is not a list, or
\* one of its result objects has no url.
BodyMalformed(json) ==
    /\ json.t = "object"
    /\ \/ json.web.t = "absent"
       \/ /\ json.web.t = "object"
          /\ \/ json.web.results.t \in {"absent", "null"}
             \/ /\ json.web.results.t = "array"
                /\ \E k \in DOMAIN json.web.results.items :
                      json.web.results.items[k].url = Missing

\* C10: a 2xx answer of the search API whose body is malformed ends the
\* request with a successful, empty result set.
C10_MalformedBodyIsEmptySuccess ==
    (pc = "done" /\ IsSuccess(search_response.status)
         /\ BodyMalformed(search_response.json)) =>
        response = SearchResponse(<<>>)

\* The text-generation call of run i failed: it raised (an error, a timeout)
\* or its answer was empty.
DistillFailed(i) ==
    /\ tasks[i].pc = "done"
    /\ \/ tasks[i].llm = "error"
       \/ tasks[i].llm = "text" /\ tasks[i].processed_text = <<>>

\* C11: a run whose text-generation call failed returns the record it returns
\* with distillation disabled, its contents the extracted text; and the
\* request ends as it does then: on the direct path a success with that
\* record, on the search path a success that holds the record exactly when
\* the extracted text is not blank.
C11_DistillFailureKeepsText ==
    \A i \in DOMAIN tasks :
        DistillFailed(i) =>
            /\ tasks[i].result =
                   PageResult(tasks[i].url, tasks[i].page_title, tasks[i].text)
            /\ pc = "done" =>
                  IF DirectMode
                  THEN response = SearchResponse(<<tasks[i].result>>)
                  ELSE /\ response.status = 200
                       /\ (\E k \in DOMAIN response.results :
                               response.results[k] = tasks[i].result)
                              <=> (Strip(tasks[i].text) # <<>>)

C11_Witness ==
    /\ pc = "done"
    /\ SearchMode
    /\ \E i \in DOMAIN tasks :
          /\ tasks[i].llm = "error"
          /\ tasks[i].text # <<>>
          /\ response.results = <<tasks[i].result>>
          /\ tasks[i].result.page_contents = tasks[i].text

\* C12: the token sent to the search API is the header's value when a
\* non-empty one was sent, whatever the process default is, and otherwise the
\* process default; with neither, no call is made and no token is sent.
C12_CredentialOrder ==
    /\ searchCalls > 0 =>
          sent_token = IF x_brave_search_api_key \notin {None, ""}
                       THEN x_brave_search_api_key
                       ELSE BRAVE_SEARCH_API_KEY
    /\ (x_brave_search_api_key \in {None, ""} /\ BRAVE_SEARCH_API_KEY \in {None, ""}) =>
          (searchCalls = 0 /\ sent_token = None)

C12_Witness ==
    /\ searchCalls = 1
    /\ x_brave_search_api_key = "hk"
    /\ BRAVE_SEARCH_API_KEY = "dk"
    /\ sent_token = "hk"

\* The scheme and host of a page URL: the URL up to the first "/", "?" or "#"
\* after the "//" of its scheme.
SchemeAndHost(url) ==
    LET from == IF StartsWith(url, <<"h", "t", "t", "p", ":">>) THEN 8 ELSE 9
        stops == { i \in from..Len(url) : url[i] \in {"/", "?", "#"} }
        end == IF stops = {} THEN Len(url) + 1
               ELSE CHOOSE i \in stops : \A j \in stops : i <= j
    IN SubSeq(url, 1, end - 1)

\* The href the claim says is shown: "//..." prefixed with "https:", "/..."
\* prefixed with the scheme and host of the page URL, then without a leading
\* "http://" or "https://".
ExpectedHref(url, href) ==
    LET full == IF StartsWith(href, <<"/", "/">>)
                THEN <<"h", "t", "t", "p", "s", ":">> \o href
                ELSE IF StartsWith(href, <<"/">>) THEN SchemeAndHost(url) \o href
                ELSE href
    IN IF StartsWith(full, <<"h", "t", "t", "p", ":", "/", "/">>) THEN Drop(full, 7)
       ELSE IF StartsWith(full, <<"h", "t", "t", "p", "s", ":", "/", "/">>)
       THEN Drop(full, 8)
       ELSE full

\* C13: the string given to an anchor is "<link text, or Link when it is
\* empty> (<href>)", the href resolved against the scheme and host of the page
\* URL and shown without its leading http:// or https://.
C13_LinkRewritten ==
    rendered # NotRendered =>
        rendered = LinkTextOrDefault(anchor.nodes) \o <<" ", "(">>
                       \o ExpectedHref(anchor.url, anchor.href) \o <<")">>

\* C14: on the search path the response exists only once every launched run
\* is done; a step changes at most one run, so the end of one run, a failure
\* included, leaves every sibling as it was; and a run that is done keeps its
\* outcome.
C14_WaitsForAllRuns ==
    /\ []((pc = "done" /\ SearchMode /\ tasks # <<>>) =>
              \A i \in DOMAIN tasks : tasks[i].pc = "done")
    /\ [][\A i \in DOMAIN tasks :
             /\ tasks[i].pc = "done" => tasks'[i] = tasks[i]
             /\ tasks'[i] # tasks[i] =>
                   \A j \in DOMAIN tasks \ {i} : tasks'[j] = tasks[j]]_vars

C14_Witness ==
    /\ pc = "done"
    /\ SearchMode
    /\ Len(tasks) = 2
    /\ completed = <<1, 2>>
    /\ FetchFailed(1)
    /\ tasks[2].fetch = "ok"
    /\ response.results = <<tasks[2].result>>

\* The contents run i ends with after the optional distillation are empty or
\* blank.  An answer made of parts is not a string and is not blank.
FinalContentBlank(i) ==
    IF tasks[i].llm = "parts" THEN FALSE
    ELSE IF tasks[i].llm = "text" /\ tasks[i].processed_text # <<>>
    THEN Strip(tasks[i].processed_text) = <<>>
    ELSE Strip(tasks[i].text) = <<>>

\* Candidate i is discarded: its fetch or extraction failed, or its final
\* contents are blank.
Discarded(i) == FetchFailed(i) \/ FinalContentBlank(i)

\* C15: on the search path the result set holds one record for each candidate
\* that is not discarded, and nothing else.
C15_ExactlyTheSurvivors ==
    (pc = "done" /\ SearchMode /\ response.status = 200 /\ tasks # <<>>) =>
        /\ Len(response.results) =
               Cardinality({ i \in DOMAIN tasks : ~Discarded(i) })
        /\ \A k \in DOMAIN response.results :
               \E i \in DOMAIN tasks :
                   ~Discarded(i) /\ response.results[k] = tasks[i].result

\* C16: a run whose text-generation answer is the NOT RELEVANT sentinel
\* returns a record with the sentinel as its contents, and the finished
\* request holds that record: alone on the direct path, in the result set on
\* the search path.
C16_SentinelPassedThrough ==
    \A i \in DOMAIN tasks :
        (tasks[i].pc = "done" /\ tasks[i].llm = "text"
             /\ tasks[i].processed_text = NOT_RELEVANT) =>
            /\ tasks[i].result =
                   PageResult(tasks[i].url, tasks[i].page_title, NOT_RELEVANT)
            /\ pc = "done" =>
                  IF DirectMode
                  THEN response = SearchResponse(<<tasks[i].result>>)
                  ELSE /\ response.status = 200
                       /\ \E k \in DOMAIN response.results :
                              response.results[k] = tasks[i].result

C16_Witness ==
    /\ pc = "done"
    /\ SearchMode
    /\ Len(response.results) = 1
    /\ response.results[1].page_contents = NOT_RELEVANT
    /\ \E i \in DOMAIN tasks : tasks[i].processed_text = NOT_RELEVANT

RECURSIVE SumLlmCalls(_)
SumLlmCalls(ts) ==
    IF ts = <<>> THEN 0 ELSE Head(ts).llm_calls + SumLlmCalls(Tail(ts))

\* C17: model.ainvoke is called for a run only when GEMINI_API_KEY is set and
\* the run's page was fetched with a 2xx status and extracted; never for a run
\* whose fetch or extraction failed; every call is the call of some run; and
\* with no key there is no call and every record's contents are the extracted
\* text of its run.
C17_DistillOnlyAfterExtraction ==
    /\ llmCalls = SumLlmCalls(tasks)
    /\ \A i \in DOMAIN tasks :
          /\ tasks[i].llm_calls > 0 =>
                /\ GEMINI_API_KEY \notin {None, ""}
                /\ tasks[i].fetch = "ok"
                /\ IsSuccess(tasks[i].page_status)
          /\ FetchFailed(i) => (tasks[i].llm_calls = 0 /\ tasks[i].llm = "none")
    /\ GEMINI_API_KEY \in {None, ""} =>
          /\ llmCalls = 0
          /\ \A k \in DOMAIN response.results :
                \E i \in DOMAIN tasks :
                    /\ response.results[k] = tasks[i].result
                    /\ response.results[k].page_contents = tasks[i].text

C17_Witness ==
    /\ pc = "done"
    /\ GEMINI_API_KEY = "gk"
    /\ Len(tasks) = 2
    /\ FetchFailed(1) /\ tasks[1].llm_calls = 0
    /\ tasks[2].fetch = "ok" /\ tasks[2].llm_calls = 1
    /\ llmCalls = 1

\* C18: the search API is called at most once; every candidate entry, or the
\* direct URL, has exactly one run and that run sends one GET; a run calls
\* model.ainvoke at most once.
C18_NoRetries ==
    /\ searchCalls <= 1
    /\ fetchCalls = Len(tasks)
    /\ llmCalls <= fetchCalls
    /\ IF DirectMode THEN Len(tasks) <= 1 ELSE Len(tasks) = Len(urls)
    /\ \A i \in DOMAIN tasks :
          tasks[i].attempts = 1 /\ tasks[i].llm_calls <= 1

C18_Witness ==
    /\ pc = "done"
    /\ SearchMode
    /\ searchCalls = 1
    /\ Len(tasks) = 2
    /\ fetchCalls = 2
    /\ tasks[1].fetch = "timeout"
    /\ tasks[2].llm = "error"
    /\ llmCalls = 1

\* C19: a request with a non-empty url (and n in range) never calls the
\* search API and sends it no token, and ends having made exactly one run, on
\* that url; the search API is called only for a request with no url.
C19_ModesExclusive ==
    /\ (DirectMode /\ body.n \in MinN..MaxN) =>
          /\ searchCalls = 0 /\ sent_token = None
          /\ pc = "done" =>
                (Len(tasks) = 1 /\ tasks[1].url = body.url /\ fetchCalls = 1)
    /\ searchCalls > 0 => SearchMode

\* C20: under fair scheduling every request ends; when it has ended it has one
\* outcome, a success or an error with no results; and the outcome of an
\* ended request never changes.
C20_Terminates ==
    /\ <>(pc = "done")
    /\ [](pc = "done" =>
              /\ response.status # 0
              /\ response.status # 200 => response.results = <<>>)
    /\ [][pc = "done" => (pc' = "done" /\ response' = response)]_vars

C20_Witness ==
    /\ pc = "done"
    /\ SearchMode
    /\ Len(tasks) = 2
    /\ \A i \in DOMAIN tasks : tasks[i].pc = "done"
    /\ response.status = 200
    /\ Len(response.results) = 2

====
